---------------------------- MODULE Spec2Model ----------------------------
(***************************************************************************)
(* Model of the promotion scraper's route handler (src/unnamed/part_000):  *)
(* sanitize -> chunk -> rate-limited selector inference -> combination ->  *)
(* DOM extraction, one session (scrapeUrl) per URL, aggregated by POST.    *)
(*                                                                         *)
(* A JavaScript string is a sequence of one-character strings; indices of  *)
(* the JavaScript operations are 0-based as in the source.                 *)
(***************************************************************************)
EXTENDS Integers, Sequences, FiniteSets, TLC

VARIABLES
    ckInput,      \* splitHTMLIntoChunks: the argument html
    ckRemaining,  \* splitHTMLIntoChunks: remainingHtml
    ckChunks,     \* splitHTMLIntoChunks: chunks
    ckPc,         \* splitHTMLIntoChunks: "loop" | "returned" | "idle"
    cbList,       \* combineSelectors: the argument selectorsList
    cbOut,        \* combineSelectors: its completion (returned map or throw)
    cbPc,         \* combineSelectors: "call" | "returned" | "idle"
    exDom,        \* extraction: the rendered document, elements in document order
    exSel,        \* extraction: the argument selectors (the combined map)
    exOut,        \* extraction: the array the page function returns
    exPc,         \* extraction: "call" | "returned" | "idle"
    apiKeySet,    \* whether process.env.OPENAI_API_KEY is set
    request,      \* the body of the POST request
    postPc,       \* POST: "start" | "awaiting" | "responded" | "idle"
    response,     \* POST: the NextResponse it returns
    sess,         \* the scrapeUrl call of each URL, by position in urls
    sanInput,     \* sanitizeHTML: the argument html
    sanOnce,      \* sanitizeHTML: what it returned for html
    sanTwice,     \* sanitizeHTML: what it returned for its own result
    sanPc         \* sanitizeHTML: "call" | "once" | "twice" | "idle"

ckVars == <<ckInput, ckRemaining, ckChunks, ckPc>>

cbVars == <<cbList, cbOut, cbPc>>

exVars == <<exDom, exSel, exOut, exPc>>

postVars == <<apiKeySet, request, postPc, response, sess>>

sanVars == <<sanInput, sanOnce, sanTwice, sanPc>>

vars == <<ckVars, cbVars, exVars, postVars, sanVars>>

\* The state of a function that is not being run.
ChunkerIdle ==
    /\ ckInput = <<>>
    /\ ckRemaining = <<>>
    /\ ckChunks = <<>>
    /\ ckPc = "idle"

CombinerIdle ==
    /\ cbList = <<>>
    /\ cbOut = [threw |-> FALSE, value |-> <<>>]
    /\ cbPc = "idle"

ExtractorIdle ==
    /\ exDom = <<>>
    /\ exSel = <<>>
    /\ exOut = <<>>
    /\ exPc = "idle"

SanitizerIdle ==
    /\ sanInput = <<>>
    /\ sanOnce = <<>>
    /\ sanTwice = <<>>
    /\ sanPc = "idle"

NoResponse ==
    [status |-> 0, promotions |-> <<>>, errors |-> <<>>, error |-> "",
     details |-> {}, timedAfter |-> {}]

PostIdle ==
    /\ apiKeySet = FALSE
    /\ request = [json |-> FALSE, urls |-> <<>>]
    /\ postPc = "idle"
    /\ response = NoResponse
    /\ sess = <<>>

-----------------------------------------------------------------------------
(* JavaScript string primitives                                            *)

Min(a, b) == IF a < b THEN a ELSE b

\* String.prototype.slice(from, to) for 0 <= from, 0 <= to.
Slice(s, from, to) == SubSeq(s, Min(from, Len(s)) + 1, Min(to, Len(s)))

\* String.prototype.slice(from) for 0 <= from.
SliceFrom(s, from) == SubSeq(s, Min(from, Len(s)) + 1, Len(s))

\* Whether pat occurs in s at 0-based index k.
OccursAt(s, pat, k) ==
    /\ k >= 0
    /\ k + Len(pat) <= Len(s)
    /\ \A j \in 1..Len(pat) : s[k + j] = pat[j]

\* String.prototype.lastIndexOf(pat, fromIndex): the greatest index
\* k <= fromIndex at which pat occurs, -1 when there is none.
LastIndexOf(s, pat, fromIndex) ==
    LET hits == {k \in 0..Min(fromIndex, Len(s) - Len(pat)) : OccursAt(s, pat, k)}
    IN  IF hits = {} THEN -1 ELSE CHOOSE k \in hits : \A h \in hits : h <= k

RECURSIVE Concat(_)
\* Array.prototype.join("") of a list of strings.
Concat(ss) == IF ss = <<>> THEN <<>> ELSE Head(ss) \o Concat(Tail(ss))

-----------------------------------------------------------------------------
(* splitHTMLIntoChunks                                                     *)

\* Stand-in for MAX_CHUNK_LENGTH = 15000, scaled so that documents longer
\* than the limit can be enumerated.
MAX_CHUNK_LENGTH == 8

CloseDiv == <<"<", "/", "d", "i", "v", ">">>

\* The literal 6 of `splitIndex + 6`.
CLOSE_DIV_LENGTH == 6

\* splitIndex of one loop iteration on a remainder longer than the limit.
SplitIndex(remainingHtml) ==
    LET found == LastIndexOf(remainingHtml, CloseDiv, MAX_CHUNK_LENGTH)
    IN  IF found = -1 THEN MAX_CHUNK_LENGTH ELSE found

\* A chunk that stops at splitIndex, leaving out the 6 characters that the
\* remainder skips.
ChunkAtDropsTag(remainingHtml) ==
    Slice(remainingHtml, 0, SplitIndex(remainingHtml))

\* The chunk pushed by one loop iteration.
ChunkAt(remainingHtml) ==
    Slice(remainingHtml, 0, SplitIndex(remainingHtml) + CLOSE_DIV_LENGTH)

\* remainingHtml after one loop iteration.
RestAt(remainingHtml) ==
    SliceFrom(remainingHtml, SplitIndex(remainingHtml) + CLOSE_DIV_LENGTH)

RECURSIVE SplitLoop(_, _)
SplitLoop(remainingHtml, chunks) ==
    IF Len(remainingHtml) = 0 THEN chunks
    ELSE IF Len(remainingHtml) <= MAX_CHUNK_LENGTH
         THEN Append(chunks, remainingHtml)
         ELSE SplitLoop(RestAt(remainingHtml),
                        Append(chunks, ChunkAt(remainingHtml)))

splitHTMLIntoChunks(html) == SplitLoop(html, <<>>)

-----------------------------------------------------------------------------
(* combineSelectors                                                        *)

\* allKeys, in the order of the source.
allKeys == <<"medioPago", "titulo", "descripcion", "fecha", "condiciones">>

KeySet == {allKeys[i] : i \in 1..Len(allKeys)}

\* Values JSON.parse can return: an object (its string-valued members as a
\* function on the keys it has), null, or a primitive.
JObject(m) == [t |-> "object", m |-> m]

JNull == [t |-> "null", m |-> <<>>]

JNumber == [t |-> "number", m |-> <<>>]

\* s[key]: [def |-> FALSE] stands for undefined.  Reading a property of
\* null throws and is decided by the caller.
GetField(s, key) ==
    IF s.t = "object" /\ key \in DOMAIN s.m
    THEN [def |-> TRUE, v |-> s.m[key]]
    ELSE [def |-> FALSE, v |-> <<>>]

\* Boolean(x) for undefined and for strings.
Truthy(x) == x.def /\ Len(x.v) > 0

RECURSIVE Join(_, _)
\* Array.prototype.join(sep) of a list of strings.
Join(ss, sep) ==
    IF ss = <<>> THEN <<>>
    ELSE IF Len(ss) = 1 THEN ss[1]
    ELSE ss[1] \o sep \o Join(Tail(ss), sep)

CommaSpace == <<",", " ">>

\* selectorsList.map((s) => s[key]).filter(Boolean)
FieldSelectors(selectorsList, key) ==
    LET mapped == [i \in 1..Len(selectorsList) |-> GetField(selectorsList[i], key)]
        kept   == SelectSeq(mapped, Truthy)
    IN  [i \in 1..Len(kept) |-> kept[i].v]

RECURSIVE Dedup(_)
Dedup(ss) ==
    IF ss = <<>> THEN <<>>
    ELSE LET rest == Dedup(SubSeq(ss, 1, Len(ss) - 1))
             last == ss[Len(ss)]
         IN  IF \E i \in 1..Len(rest) : rest[i] = last THEN rest
             ELSE Append(rest, last)

\* A combiner that keeps one copy of a selector received from several chunks.
combineSelectorsDedup(selectorsList) ==
    [threw |-> FALSE,
     value |-> [key \in KeySet |->
                    Join(Dedup(FieldSelectors(selectorsList, key)), CommaSpace)]]

\* combineSelectors: the combined map, or the TypeError of reading a
\* property of null.
combineSelectors(selectorsList) ==
    IF \E i \in 1..Len(selectorsList) : selectorsList[i].t = "null"
    THEN [threw |-> TRUE, value |-> "TypeError"]
    ELSE [threw |-> FALSE,
          value |-> [key \in KeySet |->
                        Join(FieldSelectors(selectorsList, key), CommaSpace)]]

\* Selector maps the combiner is run on.  NoKey marks a key the map lacks.
MaxMaps == 3

NoKey == <<"#nokey">>

SelT == <<"t">>

SelD == <<"d">>

SelM == <<"m">>

MkMap(t, d, o) ==
    LET val(k) == IF k = "titulo" THEN t
                  ELSE IF k = "descripcion" THEN d ELSE o
    IN  JObject([k \in {x \in KeySet : val(x) # NoKey} |-> val(k)])

SelectorMaps ==
    { MkMap(t, d, o) : t \in {NoKey, <<>>, SelT, SelD},
                       d \in {<<>>, SelD},
                       o \in {NoKey, SelM} }

CombinerInit ==
    /\ PostIdle
    /\ SanitizerIdle
    /\ ChunkerIdle
    /\ ExtractorIdle
    /\ cbList \in UNION { [1..n -> SelectorMaps] : n \in 0..MaxMaps }
    /\ cbOut = [threw |-> FALSE, value |-> <<>>]
    /\ cbPc = "call"

CombinerRun ==
    /\ cbPc = "call"
    /\ cbOut' = combineSelectors(cbList)
    /\ cbPc' = "returned"
    /\ UNCHANGED <<cbList, ckVars, exVars, postVars, sanVars>>

CombinerNext == CombinerRun

SpecCombiner == CombinerInit /\ [][CombinerNext]_vars

\* The non-empty selectors chunk maps 1..n give for key, in chunk order.
RECURSIVE Fragments(_, _, _)
Fragments(list, key, n) ==
    IF n = 0 THEN <<>>
    ELSE LET m    == list[n].m
             prev == Fragments(list, key, n - 1)
         IN  IF key \in DOMAIN m /\ m[key] # <<>> THEN Append(prev, m[key]) ELSE prev

\* 0-based offset in the joined string at which fragment j starts.
RECURSIVE OffsetOf(_, _)
OffsetOf(frags, j) ==
    IF j = 1 THEN 0 ELSE OffsetOf(frags, j - 1) + Len(frags[j - 1]) + 2

\* C8: for each of the five fields the combined value is made of every
\* non-empty selector of that field, one per chunk that has one, in chunk
\* order, repeated when chunks repeat it, separated by ", " and by nothing
\* else; a field empty or absent everywhere combines to the empty string.
C8_CombinedIsOrderedUnion ==
    cbPc = "returned" =>
        /\ ~cbOut.threw
        /\ DOMAIN cbOut.value = KeySet
        /\ \A key \in KeySet :
             LET frags == Fragments(cbList, key, Len(cbList))
                 out   == cbOut.value[key]
                 n     == Len(frags)
             IN  /\ n = 0 => out = <<>>
                 /\ n > 0 => Len(out) = OffsetOf(frags, n) + Len(frags[n])
                 /\ \A j \in 1..n :
                        Slice(out, OffsetOf(frags, j),
                              OffsetOf(frags, j) + Len(frags[j])) = frags[j]
                 /\ \A j \in 2..n :
                        Slice(out, OffsetOf(frags, j) - 2, OffsetOf(frags, j))
                            = CommaSpace

\* C8 witness: three maps, the same title selector twice and another one,
\* a map without the key, and a field no map has a selector for.
C8_Witness ==
    /\ cbPc = "returned"
    /\ Len(cbList) = 3
    /\ cbOut.value["titulo"] = SelT \o CommaSpace \o SelT
    /\ \E i \in 1..3 : "titulo" \notin DOMAIN cbList[i].m
    /\ cbOut.value["descripcion"] = SelD
    /\ cbOut.value["fecha"] = <<>>

-----------------------------------------------------------------------------
(* Record extraction: the function scrapeUrl evaluates in the page         *)

Whitespace == {" ", "\n", "\t"}

RECURSIVE TrimStart(_)
TrimStart(s) ==
    IF s # <<>> /\ Head(s) \in Whitespace THEN TrimStart(Tail(s)) ELSE s

RECURSIVE TrimEnd(_)
TrimEnd(s) ==
    IF s # <<>> /\ s[Len(s)] \in Whitespace
    THEN TrimEnd(SubSeq(s, 1, Len(s) - 1)) ELSE s

\* String.prototype.trim
Trim(s) == TrimEnd(TrimStart(s))

RECURSIVE SplitOn(_, _)
\* The parts of s between occurrences of the character ch.
SplitOn(s, ch) ==
    IF \A i \in 1..Len(s) : s[i] # ch THEN <<s>>
    ELSE LET k == CHOOSE i \in 1..Len(s) :
                      s[i] = ch /\ \A j \in 1..(i - 1) : s[j] # ch
         IN  <<SubSeq(s, 1, k - 1)>> \o SplitOn(SubSeq(s, k + 1, Len(s)), ch)

\* Element types of the rendered documents; a type selector is the name.
TagNames == {"t", "d", "m"}

\* The selector list of a selector string: comma-separated type selectors
\* with optional surrounding whitespace.
SelectorParts(selector) ==
    LET raw == SplitOn(selector, ",")
    IN  [i \in 1..Len(raw) |-> Trim(raw[i])]

\* Whether document.querySelectorAll accepts the selector (it throws a
\* SyntaxError otherwise).
ValidSelector(selector) ==
    LET parts == SelectorParts(selector)
    IN  \A i \in 1..Len(parts) : Len(parts[i]) = 1 /\ parts[i][1] \in TagNames

\* document.querySelectorAll(selector) for a valid selector: the elements
\* matching some part, in document order.
QuerySelectorAll(dom, selector) ==
    LET parts   == SelectorParts(selector)
        matches(el) == \E i \in 1..Len(parts) : parts[i] = <<el.tag>>
    IN  SelectSeq(dom, matches)

\* findElements whose texts are not trimmed.
findElementsRaw(dom, selector) ==
    IF selector = <<>> THEN <<>>
    ELSE IF ~ValidSelector(selector) THEN <<>>
    ELSE LET els == QuerySelectorAll(dom, selector)
         IN  [i \in 1..Len(els) |-> els[i].text]

\* findElements: [] for a falsy selector and for one querySelectorAll
\* rejects, else the trimmed textContent of every match.
findElements(dom, selector) ==
    IF selector = <<>> THEN <<>>
    ELSE IF ~ValidSelector(selector) THEN <<>>
    ELSE LET els == QuerySelectorAll(dom, selector)
         IN  [i \in 1..Len(els) |-> Trim(els[i].text)]

\* arr[index] || "" (index 0-based in the source, 1-based here).
AtOrEmpty(arr, i) == IF i <= Len(arr) THEN arr[i] ELSE <<>>

\* A page function with one candidate per index of the longer of the title
\* and description arrays.
CandidatesByLongest(dom, selectors, href) ==
    LET titulos       == findElements(dom, selectors["titulo"])
        descripciones == findElements(dom, selectors["descripcion"])
        fechas        == findElements(dom, selectors["fecha"])
        condiciones   == findElements(dom, selectors["condiciones"])
        mediosPago    == findElements(dom, selectors["medioPago"])
        n == IF Len(titulos) >= Len(descripciones)
             THEN Len(titulos) ELSE Len(descripciones)
    IN  [i \in 1..n |->
            [medioPago   |-> AtOrEmpty(mediosPago, i),
             titulo      |-> AtOrEmpty(titulos, i),
             descripcion |-> AtOrEmpty(descripciones, i),
             url         |-> href,
             fecha       |-> AtOrEmpty(fechas, i),
             condiciones |-> AtOrEmpty(condiciones, i)]]

\* The .map(...) of the page function: one candidate per title.
Candidates(dom, selectors, href) ==
    LET titulos       == findElements(dom, selectors["titulo"])
        descripciones == findElements(dom, selectors["descripcion"])
        fechas        == findElements(dom, selectors["fecha"])
        condiciones   == findElements(dom, selectors["condiciones"])
        mediosPago    == findElements(dom, selectors["medioPago"])
    IN  [i \in 1..Len(titulos) |->
            [medioPago   |-> AtOrEmpty(mediosPago, i),
             titulo      |-> titulos[i],
             descripcion |-> AtOrEmpty(descripciones, i),
             url         |-> href,
             fecha       |-> AtOrEmpty(fechas, i),
             condiciones |-> AtOrEmpty(condiciones, i)]]

\* promo.titulo || promo.descripcion
KeepPromo(promo) == promo.titulo # <<>> \/ promo.descripcion # <<>>

\* An extraction that keeps the candidates that have a title.
ExtractPromotionsTitleOnly(dom, selectors, href) ==
    LET hasTitle(promo) == promo.titulo # <<>>
    IN  SelectSeq(Candidates(dom, selectors, href), hasTitle)

\* The page function of scrapeUrl: candidates, filtered.
ExtractPromotions(dom, selectors, href) ==
    SelectSeq(Candidates(dom, selectors, href), KeepPromo)

\* Documents and selector maps the extraction is run on.
MaxElems == 3

TextBlank == <<" ">>

TextX == <<" ", "x", " ">>

Elements ==
    {[tag |-> g, text |-> x] : g \in {"t", "d"}, x \in {<<>>, TextBlank, TextX}}
        \cup {[tag |-> "m", text |-> <<"v">>]}

Doms == UNION { [1..n -> Elements] : n \in 0..MaxElems }

SelTD == <<"t", ",", " ", "d">>

SelBad == <<"t", ",">>

CombinedMaps ==
    { [k \in KeySet |-> IF k = "titulo" THEN t
                        ELSE IF k = "descripcion" THEN d ELSE o] :
        t \in {<<>>, SelT, SelTD, SelBad}, d \in {<<>>, SelD}, o \in {<<>>, SelM} }

PageUrl == <<"u">>

ExtractorInit ==
    /\ PostIdle
    /\ SanitizerIdle
    /\ ChunkerIdle
    /\ CombinerIdle
    /\ exDom \in Doms
    /\ exSel \in CombinedMaps
    /\ exOut = <<>>
    /\ exPc = "call"

ExtractorRun ==
    /\ exPc = "call"
    /\ exOut' = ExtractPromotions(exDom, exSel, PageUrl)
    /\ exPc' = "returned"
    /\ UNCHANGED <<exDom, exSel, ckVars, cbVars, postVars, sanVars>>

ExtractorNext == ExtractorRun

SpecExtractor == ExtractorInit /\ [][ExtractorNext]_vars

\* Whether a text is empty after trimming: it has only whitespace.
IsBlank(text) == \A i \in 1..Len(text) : text[i] \in Whitespace

\* C9: with the five arrays of matched texts, the candidate at index i of
\* the title array is in the output iff its title or its description (index
\* i of the description array, empty when there is none) is non-blank; the
\* kept candidates come in index order, the other fields come from index i of
\* their arrays, and no output record has both title and description empty.
C9_KeptIffTitleOrDescription ==
    exPc = "returned" =>
        LET rawT == findElementsRaw(exDom, exSel["titulo"])
            rawD == findElementsRaw(exDom, exSel["descripcion"])
            arr(k) == findElements(exDom, exSel[k])
            Kept == {i \in 1..Len(rawT) :
                        ~IsBlank(rawT[i]) \/ (i <= Len(rawD) /\ ~IsBlank(rawD[i]))}
            nth(j) == CHOOSE i \in Kept : Cardinality({k \in Kept : k <= i}) = j
        IN  /\ Len(exOut) = Cardinality(Kept)
            /\ \A j \in 1..Len(exOut) :
                 LET i == nth(j)
                     r == exOut[j]
                 IN  /\ r.titulo = arr("titulo")[i]
                     /\ r.descripcion = AtOrEmpty(arr("descripcion"), i)
                     /\ r.medioPago = AtOrEmpty(arr("medioPago"), i)
                     /\ r.fecha = AtOrEmpty(arr("fecha"), i)
                     /\ r.condiciones = AtOrEmpty(arr("condiciones"), i)
                     /\ r.titulo # <<>> \/ r.descripcion # <<>>

\* C9 witness: three candidates; one is dropped (blank title, blank
\* description), one is kept for its description alone, one for its title.
C9_Witness ==
    /\ exPc = "returned"
    /\ Len(findElements(exDom, exSel["titulo"])) = 3
    /\ Len(exOut) = 2
    /\ \E j \in 1..2 : exOut[j].titulo = <<>> /\ exOut[j].descripcion = <<"x">>
    /\ \E j \in 1..2 : exOut[j].titulo = <<"x">>

\* The number of elements of the document the title selector matches: none
\* for an empty selector and for one querySelectorAll rejects.
TitleMatches == Len(findElementsRaw(exDom, exSel["titulo"]))

\* C18: the page function outputs at most as many records as the title
\* selector matches elements: none when that selector is empty, invalid or
\* matches nothing, whatever the description selector matches; and every
\* record's description is the one at an index of the title array, never
\* one beyond its end.
C18_RecordsBoundedByTitles ==
    exPc = "returned" =>
        LET descs == findElements(exDom, exSel["descripcion"])
        IN  /\ Len(exOut) <= TitleMatches
            /\ TitleMatches = 0 => exOut = <<>>
            /\ \A j \in 1..Len(exOut) :
                  \E i \in j..TitleMatches :
                      exOut[j].descripcion = AtOrEmpty(descs, i)

\* C18 witness: one title and two descriptions, the second non-blank: the
\* only record has the first, blank, description.
C18_Witness ==
    /\ exPc = "returned"
    /\ TitleMatches = 1
    /\ findElements(exDom, exSel["descripcion"]) = << <<>>, <<"x">> >>
    /\ Len(exOut) = 1
    /\ exOut[1].titulo = <<"x">>
    /\ exOut[1].descripcion = <<>>

-----------------------------------------------------------------------------
(* sanitizeHTML: each replace is modelled by what its regular expression   *)
(* matches, scanning left to right for non-overlapping matches.            *)

UpperChars ==
    <<"A", "B", "C", "D", "E", "F", "G", "H", "I", "J", "K", "L", "M",
      "N", "O", "P", "Q", "R", "S", "T", "U", "V", "W", "X", "Y", "Z">>

LowerChars ==
    <<"a", "b", "c", "d", "e", "f", "g", "h", "i", "j", "k", "l", "m",
      "n", "o", "p", "q", "r", "s", "t", "u", "v", "w", "x", "y", "z">>

Digits == {"0", "1", "2", "3", "4", "5", "6", "7", "8", "9"}

\* The case folding of the i flag.
Lower(c) ==
    IF \E i \in 1..Len(UpperChars) : UpperChars[i] = c
    THEN LowerChars[CHOOSE i \in 1..Len(UpperChars) : UpperChars[i] = c]
    ELSE c

\* \w
IsWordChar(c) ==
    \/ \E i \in 1..Len(LowerChars) : LowerChars[i] = Lower(c)
    \/ c \in Digits
    \/ c = "_"

\* \s
IsSpace(c) == c \in {" ", "\n", "\r", "\t"}

\* A line terminator: what . does not match and what ^ follows under m.
IsNewline(c) == c \in {"\n", "\r"}

\* Whether pat (lower case) occurs in s at 0-based index k, ignoring case.
OccursAtCI(s, pat, k) ==
    /\ k >= 0
    /\ k + Len(pat) <= Len(s)
    /\ \A j \in 1..Len(pat) : Lower(s[k + j]) = pat[j]

\* The least index >= from at which pat occurs ignoring case, -1 if none.
IndexOfCI(s, pat, from) ==
    LET hits == {k \in from..(Len(s) - Len(pat)) : OccursAtCI(s, pat, k)}
    IN  IF hits = {} THEN -1 ELSE CHOOSE k \in hits : \A h \in hits : k <= h

\* Length of the match of /<name\b[^<]*(?:(?!<\/name>)<[^<]*)*<\/name>/i at
\* the start of s, 0 when it does not match there: "<name" followed by a
\* word boundary, up to and including the first "</name>" after it.
BlockMatch(s, name) ==
    LET open  == <<"<">> \o name
        close == <<"<", "/">> \o name \o <<">">>
        stop  == IndexOfCI(s, close, Len(open))
    IN  IF /\ OccursAtCI(s, open, 0)
           /\ Len(s) > Len(open)
           /\ ~IsWordChar(s[Len(open) + 1])
           /\ stop # -1
        THEN stop + Len(close)
        ELSE 0

RECURSIVE RemoveBlocks(_, _)
\* html.replace(/<name\b...<\/name>/gi, "")
RemoveBlocks(s, name) ==
    IF s = <<>> THEN <<>>
    ELSE LET n == BlockMatch(s, name)
         IN  IF n > 0 THEN RemoveBlocks(SliceFrom(s, n), name)
             ELSE <<Head(s)>> \o RemoveBlocks(Tail(s), name)

CommentOpen == <<"<", "!", "-", "-">>

CommentClose == <<"-", "-", ">">>

\* Length of the match of /<!--[\s\S]*?-->/ at the start of s, 0 if none.
CommentMatch(s) ==
    LET stop == IndexOfCI(s, CommentClose, Len(CommentOpen))
    IN  IF OccursAtCI(s, CommentOpen, 0) /\ stop # -1
        THEN stop + Len(CommentClose)
        ELSE 0

RECURSIVE RemoveComments(_)
RemoveComments(s) ==
    IF s = <<>> THEN <<>>
    ELSE LET n == CommentMatch(s)
         IN  IF n > 0 THEN RemoveComments(SliceFrom(s, n))
             ELSE <<Head(s)>> \o RemoveComments(Tail(s))

\* The attribute names of the alternation, in its order, before data-.*?
AttrNames ==
    << <<"o", "n", "c", "l", "i", "c", "k">>,
       <<"o", "n", "l", "o", "a", "d">>,
       <<"o", "n", "e", "r", "r", "o", "r">>,
       <<"i", "d">>,
       <<"c", "l", "a", "s", "s">>,
       <<"s", "t", "y", "l", "e">> >>

DataPrefix == <<"d", "a", "t", "a", "-">>

EqualsQuote == <<"=", "\"">>

\* Length of the match of /="[^"]*"/ at 0-based index k of s, 0 if none.
ValueMatch(s, k) ==
    LET quotes == {q \in (k + 2)..(Len(s) - 1) : s[q + 1] = "\""}
    IN  IF OccursAtCI(s, EqualsQuote, k) /\ quotes # {}
        THEN (CHOOSE q \in quotes : \A r \in quotes : q <= r) + 1 - k
        ELSE 0

\* Length of the match of
\* /\s(onclick|onload|onerror|id|class|style|data-.*?)="[^"]*"/i at the
\* start of s, 0 when it does not match there.
AttrMatch(s) ==
    LET named == {i \in 1..Len(AttrNames) :
                     /\ OccursAtCI(s, AttrNames[i], 1)
                     /\ ValueMatch(s, 1 + Len(AttrNames[i])) > 0}
        \* data-.*? is lazy: the first "=" that starts a value, with no
        \* line terminator before it.
        stops == {k \in (1 + Len(DataPrefix))..Len(s) :
                     /\ ValueMatch(s, k) > 0
                     /\ \A j \in (2 + Len(DataPrefix))..k : ~IsNewline(s[j])}
    IN  IF s = <<>> \/ ~IsSpace(s[1]) THEN 0
        ELSE IF named # {}
        THEN LET i == CHOOSE i \in named : \A j \in named : i <= j
             IN  1 + Len(AttrNames[i]) + ValueMatch(s, 1 + Len(AttrNames[i]))
        ELSE IF OccursAtCI(s, DataPrefix, 1) /\ stops # {}
        THEN LET k == CHOOSE k \in stops : \A j \in stops : k <= j
             IN  k + ValueMatch(s, k)
        ELSE 0

RECURSIVE RemoveAttrs(_)
RemoveAttrs(s) ==
    IF s = <<>> THEN <<>>
    ELSE LET n == AttrMatch(s)
         IN  IF n > 0 THEN RemoveAttrs(SliceFrom(s, n))
             ELSE <<Head(s)>> \o RemoveAttrs(Tail(s))

\* Length of the match of /^\s*[\r\n]/m at the start of s, given that s
\* starts a line: the leading whitespace up to its last line terminator.
BlankLineMatch(s) ==
    LET run == {k \in 1..Len(s) : \A j \in 1..k : IsSpace(s[j])}
        nls == {k \in run : IsNewline(s[k])}
    IN  IF nls = {} THEN 0 ELSE CHOOSE k \in nls : \A j \in nls : j <= k

RECURSIVE RemoveBlankLines(_, _)
RemoveBlankLines(s, atLineStart) ==
    IF s = <<>> THEN <<>>
    ELSE LET n == IF atLineStart THEN BlankLineMatch(s) ELSE 0
         IN  IF n > 0 THEN RemoveBlankLines(SliceFrom(s, n), TRUE)
             ELSE <<Head(s)>> \o RemoveBlankLines(Tail(s), IsNewline(Head(s)))

RECURSIVE CollapseSpaces(_)
\* .replace(/\s+/g, " ")
CollapseSpaces(s) ==
    IF s = <<>> THEN <<>>
    ELSE IF IsSpace(Head(s))
    THEN LET run == {k \in 1..Len(s) : \A j \in 1..k : IsSpace(s[j])}
             n   == CHOOSE k \in run : \A j \in run : j <= k
         IN  <<" ">> \o CollapseSpaces(SliceFrom(s, n))
    ELSE <<Head(s)>> \o CollapseSpaces(Tail(s))

RECURSIVE TrimSpaceStart(_)
TrimSpaceStart(s) ==
    IF s # <<>> /\ IsSpace(Head(s)) THEN TrimSpaceStart(Tail(s)) ELSE s

RECURSIVE TrimSpaceEnd(_)
TrimSpaceEnd(s) ==
    IF s # <<>> /\ IsSpace(s[Len(s)])
    THEN TrimSpaceEnd(SubSeq(s, 1, Len(s) - 1)) ELSE s

TagHead == <<"h", "e", "a", "d">>

TagScript == <<"s", "c", "r", "i", "p", "t">>

TagStyle == <<"s", "t", "y", "l", "e">>

TagFooter == <<"f", "o", "o", "t", "e", "r">>

TagNav == <<"n", "a", "v">>

TagForm == <<"f", "o", "r", "m">>

TagIframe == <<"i", "f", "r", "a", "m", "e">>

sanitizeHTML(html) ==
    LET s1  == RemoveBlocks(html, TagHead)
        s2  == RemoveBlocks(s1, TagScript)
        s3  == RemoveBlocks(s2, TagStyle)
        s4  == RemoveComments(s3)
        s5  == RemoveBlocks(s4, TagFooter)
        s6  == RemoveBlocks(s5, TagNav)
        s7  == RemoveBlocks(s6, TagForm)
        s8  == RemoveBlocks(s7, TagIframe)
        s9  == RemoveAttrs(s8)
        s10 == RemoveBlankLines(s9, TRUE)
        s11 == CollapseSpaces(s10)
    IN  TrimSpaceEnd(TrimSpaceStart(s11))

-----------------------------------------------------------------------------
(* generateSelector and the loop of processHTMLChunks                      *)

MAX_REQUESTS_PER_MINUTE == 3

\* What the inference service does with a call: the call is rejected, the
\* completion has no content, the content is not JSON, or it is the text of
\* a JSON value.
Reply(kind, value) == [kind |-> kind, value |-> value]

Thrown(name, message) ==
    [threw |-> TRUE, name |-> name, message |-> message, content |-> JNull]

\* generateSelector once the service has answered: the content, or the
\* SelectorGenerationError its outer catch rethrows.
generateSelector(reply) ==
    IF reply.kind = "reject"
    THEN Thrown("SelectorGenerationError", "service error")
    ELSE IF reply.kind = "empty"
    THEN Thrown("SelectorGenerationError", "OpenAI no genero ningun selector")
    ELSE IF reply.kind = "notjson"
    THEN Thrown("SelectorGenerationError", "Respuesta no es JSON valido")
    ELSE [threw |-> FALSE, name |-> "", message |-> "", content |-> reply.value]

\* The result a session returns, as scrapeUrl's promise will deliver it.
NoOutcome ==
    [kind |-> "none", success |-> FALSE, hasData |-> FALSE, data |-> <<>>,
     hasError |-> FALSE, error |-> ""]

\* return { success: true, data: promotions }
Success(data) ==
    [kind |-> "returned", success |-> TRUE, hasData |-> TRUE, data |-> data,
     hasError |-> FALSE, error |-> ""]

\* A failure result that also carries an (empty) record list.
FailureWithData(message) ==
    [kind |-> "returned", success |-> FALSE, hasData |-> TRUE, data |-> <<>>,
     hasError |-> TRUE, error |-> message]

\* return { success: false, error: ... }
Failure(message) ==
    [kind |-> "returned", success |-> FALSE, hasData |-> FALSE, data |-> <<>>,
     hasError |-> TRUE, error |-> message]

\* An exception that leaves scrapeUrl: its promise rejects.
Rejected(message) ==
    [kind |-> "rejected", success |-> FALSE, hasData |-> FALSE, data |-> <<>>,
     hasError |-> TRUE, error |-> message]

\* The locals of one scrapeUrl call and of the processHTMLChunks call in it.
\* i is the 0-based loop index.  History kept beside them: answers (per
\* chunk, "ok" or "failed"), sent (calls sent to the service), sinceSuspend
\* (calls sent since the start or the last RATE_LIMIT_DELAY wait),
\* suspensions, inflight (chunks whose call has not settled), failedBy (the
\* step whose exception reached the catch block), closeLog (releases whose
\* error was logged).
NewSession(url) ==
    [url          |-> url,
     pc           |-> "launch",
     browser      |-> "none",
     page         |-> "none",
     chunks       |-> <<>>,
     i            |-> 0,
     requestCount |-> 0,
     results      |-> <<>>,
     combined     |-> [k \in KeySet |-> <<>>],
     outcome      |-> NoOutcome,
     answers      |-> <<>>,
     sent         |-> 0,
     sinceSuspend |-> 0,
     suspensions  |-> 0,
     inflight     |-> {},
     failedBy     |-> "none",
     closeLog     |-> {}]

\* The finally block: where control goes after try or catch.
EnterFinally(s) ==
    [s EXCEPT !.pc = IF s.page = "open" THEN "closePage"
                     ELSE IF s.browser = "open" THEN "closeBrowser"
                     ELSE "done"]

\* A session whose exception is not caught: it releases its handles and
\* its promise rejects.
CatchRethrows(s, cause, message) ==
    EnterFinally([s EXCEPT !.outcome = Rejected(message), !.failedBy = cause])

\* The catch block of scrapeUrl.
Catch(s, cause, message) ==
    EnterFinally([s EXCEPT !.outcome = Failure(message), !.failedBy = cause])

\* The return of the try block of scrapeUrl.
Return(s, data) == EnterFinally([s EXCEPT !.outcome = Success(data)])

\* A release whose error ends the finally block: the other handle is not
\* released and the promise rejects.
AfterCloseUnhandled(s, handle, ok) ==
    IF ok
    THEN IF handle = "page"
         THEN [s EXCEPT !.page = "closed",
                        !.pc = IF s.browser = "open" THEN "closeBrowser" ELSE "done"]
         ELSE [s EXCEPT !.browser = "closed", !.pc = "done"]
    ELSE [s EXCEPT !.outcome = Rejected("close failed"), !.pc = "done"]

\* page.close() / browser.close() settled: .catch logs a rejection.
AfterClose(s, handle, ok) ==
    LET state == IF ok THEN "closed" ELSE "closeFailed"
        log   == IF ok THEN s.closeLog ELSE s.closeLog \cup {handle}
    IN  IF handle = "page"
        THEN [s EXCEPT !.page = state, !.closeLog = log,
                       !.pc = IF s.browser = "open" THEN "closeBrowser" ELSE "done"]
        ELSE [s EXCEPT !.browser = state, !.closeLog = log, !.pc = "done"]

\* A loop that sends the next chunk together with the current one.
IssueWithoutAwait(s, keySet) ==
    IF ~keySet THEN [s EXCEPT !.pc = "keyError"]
    ELSE [s EXCEPT !.pc = "inflight",
                   !.inflight = {j \in {s.i, s.i + 1} : j < Len(s.chunks)},
                   !.sent = @ + 1,
                   !.sinceSuspend = @ + 1]

\* generateSelector(chunks[i]) up to its await: without the key it throws
\* before calling the service, else the call is sent.
Issue(s, keySet) ==
    IF ~keySet THEN [s EXCEPT !.pc = "keyError"]
    ELSE [s EXCEPT !.pc = "inflight",
                   !.inflight = @ \cup {s.i},
                   !.sent = @ + 1,
                   !.sinceSuspend = @ + 1]

\* After the loop: combineSelectors, then the page function is called.
FinishLoop(s) ==
    LET c == combineSelectors(s.results)
    IN  IF c.threw THEN Catch(s, "combine", "Cannot read properties of null")
        ELSE [s EXCEPT !.combined = c.value, !.pc = "extract"]

\* The head of a loop iteration.
Advance(s, keySet) ==
    IF s.i < Len(s.chunks)
    THEN IF s.requestCount >= MAX_REQUESTS_PER_MINUTE
         THEN [s EXCEPT !.pc = "sleeping", !.suspensions = @ + 1]
         ELSE Issue(s, keySet)
    ELSE FinishLoop(s)

\* A wait that leaves requestCount as it was.
AfterDelayKeepsCount(s, keySet) ==
    Issue([s EXCEPT !.sinceSuspend = 0], keySet)

\* The RATE_LIMIT_DELAY timer fired.
AfterDelay(s, keySet) ==
    Issue([s EXCEPT !.requestCount = 0, !.sinceSuspend = 0], keySet)

\* A chunk failure that is not caught in the loop: it reaches the catch
\* block of scrapeUrl.
ChunkFailedAborts(s) ==
    Catch([s EXCEPT !.answers = Append(@, "failed"), !.inflight = @ \ {s.i}],
          "infer", "chunk failed")

\* The catch block of the loop: the error is logged, the loop goes on.
ChunkFailed(s) ==
    [s EXCEPT !.i = @ + 1,
              !.answers = Append(@, "failed"),
              !.inflight = @ \ {s.i}]

\* A requestCount declared at module level: every session increments the
\* one counter, whose value is the largest any session has written.
ChunkSucceededSharedCounter(s, value) ==
    LET shared == CHOOSE n \in {sess[j].requestCount : j \in DOMAIN sess} :
                      \A j \in DOMAIN sess : sess[j].requestCount <= n
    IN  [s EXCEPT !.results = Append(@, value),
                  !.requestCount = shared + 1,
                  !.i = @ + 1,
                  !.answers = Append(@, "ok"),
                  !.inflight = @ \ {s.i}]

\* JSON.parse, results.push, requestCount++.
ChunkSucceeded(s, value) ==
    [s EXCEPT !.results = Append(@, value),
              !.requestCount = @ + 1,
              !.i = @ + 1,
              !.answers = Append(@, "ok"),
              !.inflight = @ \ {s.i}]

\* The rest of the iteration once generateSelector has settled, and the
\* head of the next one.
AfterGenerate(s, g, keySet) ==
    LET t == IF g.threw THEN ChunkFailed(s) ELSE ChunkSucceeded(s, g.content)
    IN  \* the loop goes on unless the iteration left it
        IF t.pc = s.pc THEN Advance(t, keySet) ELSE t

-----------------------------------------------------------------------------
(* Documents the chunker is run on: concatenations of at most MaxPieces    *)
(* pieces.                                                                 *)

MaxPieces == 6

Pieces == { <<"a">>, <<"b", " ", "c">>, CloseDiv }

PieceLists == UNION { [1..n -> Pieces] : n \in 0..MaxPieces }

ChunkerDocs == { Concat(pl) : pl \in PieceLists }

ChunkerInit ==
    /\ PostIdle
    /\ SanitizerIdle
    /\ CombinerIdle
    /\ ExtractorIdle
    /\ ckInput \in ChunkerDocs
    /\ ckRemaining = ckInput
    /\ ckChunks = <<>>
    /\ ckPc = "loop"

\* while (remainingHtml.length > 0) is false: fall out of the loop.
ChunkerExit ==
    /\ ckPc = "loop"
    /\ Len(ckRemaining) = 0
    /\ ckPc' = "returned"
    /\ UNCHANGED <<ckInput, ckRemaining, ckChunks, cbVars, exVars, postVars, sanVars>>

\* remainingHtml.length <= MAX_CHUNK_LENGTH: push the remainder and break.
ChunkerLast ==
    /\ ckPc = "loop"
    /\ Len(ckRemaining) > 0
    /\ Len(ckRemaining) <= MAX_CHUNK_LENGTH
    /\ ckChunks' = Append(ckChunks, ckRemaining)
    /\ ckPc' = "returned"
    /\ UNCHANGED <<ckInput, ckRemaining, cbVars, exVars, postVars, sanVars>>

\* One iteration that pushes a chunk and shortens remainingHtml.
ChunkerSplit ==
    /\ ckPc = "loop"
    /\ Len(ckRemaining) > MAX_CHUNK_LENGTH
    /\ ckChunks' = Append(ckChunks, ChunkAt(ckRemaining))
    /\ ckRemaining' = RestAt(ckRemaining)
    /\ UNCHANGED <<ckInput, ckPc, cbVars, exVars, postVars, sanVars>>

ChunkerNext == ChunkerExit \/ ChunkerLast \/ ChunkerSplit

SpecChunker == ChunkerInit /\ [][ChunkerNext]_vars

\* C6: every chunk but possibly the last is no longer than MAX_CHUNK_LENGTH,
\* whether the split follows a "</div>" found by the backward search or is
\* the hard split.
C6_ChunksWithinLimit ==
    ckPc = "returned" =>
        \A i \in 1..(Len(ckChunks) - 1) : Len(ckChunks[i]) <= MAX_CHUNK_LENGTH

\* C7: the loop terminates (every chunk is non-empty and the chunks pushed so
\* far followed by the remainder are the input, so the remainder shrinks at
\* every iteration and an iteration is always possible), the chunks in order
\* concatenate to the input exactly, and a non-empty input gives a chunk.
C7_ChunksCoverInput ==
    /\ \A i \in 1..Len(ckChunks) : Len(ckChunks[i]) > 0
    /\ ckPc = "loop" =>
            /\ Concat(ckChunks) \o ckRemaining = ckInput
            /\ ENABLED ChunkerNext
    /\ ckPc = "returned" =>
            /\ Concat(ckChunks) = ckInput
            /\ (Len(ckInput) > 0 => Len(ckChunks) >= 1)

\* C7 witness: a finished run with a hard split, a split after "</div>" and
\* a final short chunk.
C7_Witness ==
    /\ ckPc = "returned"
    /\ Len(ckChunks) >= 3
    /\ \E i \in 1..(Len(ckChunks) - 1) :
            SubSeq(ckChunks[i], Len(ckChunks[i]) - 5, Len(ckChunks[i])) = CloseDiv
    /\ \E i \in 1..(Len(ckChunks) - 1) :
            /\ Len(ckChunks[i]) = MAX_CHUNK_LENGTH + CLOSE_DIV_LENGTH
            /\ SubSeq(ckChunks[i], Len(ckChunks[i]) - 5, Len(ckChunks[i])) # CloseDiv

-----------------------------------------------------------------------------
(* POST and the sessions it starts                                         *)

\* .min(1) and .max(10) of urlSchema.
MIN_URLS == 1

MAX_URLS == 10

\* The URL strings of the requests; NotAUrl fails z.string().url().
Urls == {"u1", "u2", "u3"}

NotAUrl == "bad"

\* A schema whose array has no upper limit.
ValidBodyNoMax(urls) ==
    /\ Len(urls) >= MIN_URLS
    /\ \A k \in 1..Len(urls) : urls[k] \in Urls

\* urlSchema.parse(body) succeeds.
ValidBody(urls) ==
    /\ Len(urls) >= MIN_URLS
    /\ Len(urls) <= MAX_URLS
    /\ \A k \in 1..Len(urls) : urls[k] \in Urls

Unit == <<"a", "b">> \o CloseDiv

ScriptBlock ==
    <<"<", "s", "c", "r", "i", "p", "t", ">", "s",
      "<", "/", "s", "c", "r", "i", "p", "t", ">">>

\* document.body.outerHTML of the page each URL renders.
RawHtml(url) ==
    IF url = "u1"
    THEN <<" ">> \o Unit \o Unit \o CommentOpen \o <<"c">> \o CommentClose
             \o Unit \o Unit \o <<"\n">>
    ELSE IF url = "u2" THEN Unit \o ScriptBlock \o Unit
    ELSE <<" ">> \o ScriptBlock

\* The elements of the page each URL renders, in document order.
Dom(url) ==
    IF url = "u1"
    THEN << [tag |-> "t", text |-> TextX], [tag |-> "d", text |-> TextBlank],
            [tag |-> "t", text |-> TextBlank] >>
    ELSE << [tag |-> "t", text |-> TextX], [tag |-> "d", text |-> TextX] >>

\* location.href of the page: the URL as a string of characters.
Href(url) == <<url>>

\* The JSON values the service answers with.
JsonAnswers == { MkMap(SelT, SelD, <<>>), MkMap(SelD, NoKey, NoKey), JNull }

Replies ==
    { Reply(k, JNull) : k \in {"reject", "empty", "notjson"} }
        \cup { Reply("json", v) : v \in JsonAnswers }

\* The request bodies: not JSON, or an object with a urls array.
LongList == [k \in 1..(MAX_URLS + 1) |-> "u2"]

Requests ==
    { [json |-> FALSE, urls |-> <<>>] }
        \cup { [json |-> TRUE, urls |-> u] :
                 u \in { <<>>, <<"u1">>, <<"u2">>, <<"u2", "u2">>, <<"u3", "u2">>,
                         <<NotAUrl>>, <<"u2", NotAUrl>>, LongList } }

Init ==
    /\ ChunkerIdle
    /\ SanitizerIdle
    /\ CombinerIdle
    /\ ExtractorIdle
    /\ apiKeySet \in BOOLEAN
    /\ request \in Requests
    /\ postPc = "start"
    /\ response = NoResponse
    /\ sess = <<>>

\* error.errors of the ZodError urlSchema.parse throws: one issue for the
\* length of the array and one for each entry that is not a URL (path is
\* the 0-based index of the entry, -1 for the array).
ZodIssues(urls) ==
    (IF Len(urls) < MIN_URLS THEN {[code |-> "too_small", path |-> -1]} ELSE {})
        \cup (IF Len(urls) > MAX_URLS THEN {[code |-> "too_big", path |-> -1]} ELSE {})
        \cup {[code |-> "invalid_string", path |-> k - 1] :
                  k \in {j \in 1..Len(urls) : urls[j] \notin Urls}}

\* The catch block of POST.
ErrorResponse(name, message) ==
    IF name = "ZodError"
    THEN [status |-> 400, promotions |-> <<>>, errors |-> <<>>,
          error |-> "Error de validacion", details |-> ZodIssues(request.urls),
          timedAfter |-> {}]
    ELSE IF name = "SelectorGenerationError"
    THEN [status |-> 422, promotions |-> <<>>, errors |-> <<>>,
          error |-> "Error al generar selectores", details |-> {},
          timedAfter |-> {}]
    ELSE [status |-> 500, promotions |-> <<>>, errors |-> <<>>,
          error |-> "Error interno del servidor", details |-> {},
          timedAfter |-> {}]

RECURSIVE FlatMapData(_)
\* results.filter((r) => r.success).flatMap((r) => r.data || [])
FlatMapData(results) ==
    IF results = <<>> THEN <<>>
    ELSE (IF Head(results).success /\ Head(results).hasData
          THEN Head(results).data ELSE <<>>) \o FlatMapData(Tail(results))

\* results.filter((r) => !r.success).map((r) => r.error)
ErrorsOf(results) ==
    LET failed(r) == ~r.success
        kept == SelectSeq(results, failed)
    IN  [k \in 1..Len(kept) |-> kept[k].error]

\* The 200 response built from the results of Promise.all.  timedAfter is
\* history: the sessions that had delivered their result when
\* executionTime was computed.
OkResponse(results) ==
    [status |-> 200, promotions |-> FlatMapData(results),
     errors |-> ErrorsOf(results), error |-> "", details |-> {},
     timedAfter |-> {k \in DOMAIN sess : sess[k].pc = "done"}]

\* await req.json() throws: the body is not JSON.
PostBadJson ==
    /\ postPc = "start"
    /\ ~request.json
    /\ response' = ErrorResponse("SyntaxError", "Unexpected token")
    /\ postPc' = "responded"
    /\ UNCHANGED <<apiKeySet, request, sess, ckVars, cbVars, exVars, sanVars>>

\* urlSchema.parse(body) throws a ZodError.
PostInvalid ==
    /\ postPc = "start"
    /\ request.json
    /\ ~ValidBody(request.urls)
    /\ response' = ErrorResponse("ZodError", "invalid")
    /\ postPc' = "responded"
    /\ UNCHANGED <<apiKeySet, request, sess, ckVars, cbVars, exVars, sanVars>>

\* urls.map((url) => scrapeUrl(url)): every session runs to its first
\* await, the launch of its browser.
PostStartSessions ==
    /\ postPc = "start"
    /\ request.json
    /\ ValidBody(request.urls)
    /\ sess' = [k \in 1..Len(request.urls) |-> NewSession(request.urls[k])]
    /\ postPc' = "awaiting"
    /\ UNCHANGED <<apiKeySet, request, response, ckVars, cbVars, exVars, sanVars>>

\* A POST that answers with the results delivered so far as soon as one
\* session has delivered its result.
PostRespondOnFirst ==
    /\ postPc = "awaiting"
    /\ \E k \in DOMAIN sess : sess[k].pc = "done"
    /\ LET done == SelectSeq([k \in DOMAIN sess |-> sess[k]],
                             LAMBDA x : x.pc = "done")
       IN  response' = OkResponse([k \in DOMAIN done |-> done[k].outcome])
    /\ postPc' = "responded"
    /\ UNCHANGED <<apiKeySet, request, sess, ckVars, cbVars, exVars, sanVars>>

\* Promise.all settles: it resolves when every session has delivered its
\* result and rejects as soon as one session rejects.
PostRespond ==
    /\ postPc = "awaiting"
    /\ LET rejected == {k \in DOMAIN sess :
                           sess[k].pc = "done" /\ sess[k].outcome.kind = "rejected"}
       IN  IF rejected # {}
           THEN response' = ErrorResponse("Error", "rejected")
           ELSE /\ \A k \in DOMAIN sess : sess[k].pc = "done"
                /\ response' = OkResponse([k \in DOMAIN sess |-> sess[k].outcome])
    /\ postPc' = "responded"
    /\ UNCHANGED <<apiKeySet, request, sess, ckVars, cbVars, exVars, sanVars>>

\* A step of session k that takes it to the state t.
Step(k, t) ==
    /\ sess' = [sess EXCEPT ![k] = t]
    /\ UNCHANGED <<apiKeySet, request, postPc, response, ckVars, cbVars, exVars, sanVars>>

At(k, pc) == k \in DOMAIN sess /\ sess[k].pc = pc

\* puppeteer.launch resolves.
LaunchOk(k) ==
    /\ At(k, "launch")
    /\ Step(k, [sess[k] EXCEPT !.browser = "open", !.pc = "newPage"])

\* puppeteer.launch rejects: setupPuppeteer throws its own error.
LaunchFail(k) ==
    /\ At(k, "launch")
    /\ Step(k, Catch(sess[k], "launch", "No se pudo inicializar el navegador"))

\* browser.newPage resolves; the page is configured and page.goto called.
NewPageOk(k) ==
    /\ At(k, "newPage")
    /\ Step(k, [sess[k] EXCEPT !.page = "open", !.pc = "goto"])

NewPageFail(k) ==
    /\ At(k, "newPage")
    /\ Step(k, Catch(sess[k], "newPage", "Protocol error"))

\* page.goto resolves; the outerHTML is requested.
GotoOk(k) ==
    /\ At(k, "goto")
    /\ Step(k, [sess[k] EXCEPT !.pc = "body"])

GotoFail(k) ==
    /\ At(k, "goto")
    /\ Step(k, Catch(sess[k], "goto", "Navigation timeout of 30000 ms exceeded"))

\* page.evaluate resolves with the outerHTML: sanitize, split, and the loop
\* runs to its first await.
BodyOk(k) ==
    /\ At(k, "body")
    /\ LET chunks == splitHTMLIntoChunks(sanitizeHTML(RawHtml(sess[k].url)))
       IN  Step(k, Advance([sess[k] EXCEPT !.chunks = chunks], apiKeySet))

BodyFail(k) ==
    /\ At(k, "body")
    /\ Step(k, Catch(sess[k], "body", "Execution context was destroyed"))

\* generateSelector threw for the missing key: the loop catches it.
KeyError(k) ==
    /\ At(k, "keyError")
    /\ Step(k, AfterGenerate(sess[k],
                             Thrown("SelectorGenerationError",
                                    "OPENAI_API_KEY no esta configurada"),
                             apiKeySet))

\* The service answers the call in flight.
ServiceReply(k) ==
    /\ At(k, "inflight")
    /\ \E reply \in Replies :
          Step(k, AfterGenerate(sess[k], generateSelector(reply), apiKeySet))

\* The RATE_LIMIT_DELAY timer fires.
DelayElapsed(k) ==
    /\ At(k, "sleeping")
    /\ Step(k, AfterDelay(sess[k], apiKeySet))

\* The page function returns the promotions.
ExtractOk(k) ==
    /\ At(k, "extract")
    /\ Step(k, Return(sess[k],
                      ExtractPromotions(Dom(sess[k].url), sess[k].combined,
                                        Href(sess[k].url))))

ExtractFail(k) ==
    /\ At(k, "extract")
    /\ Step(k, Catch(sess[k], "extract", "Target closed"))

\* page.close() settles.
ClosePage(k) ==
    /\ At(k, "closePage")
    /\ \E ok \in BOOLEAN : Step(k, AfterClose(sess[k], "page", ok))

\* browser.close() settles.
CloseBrowser(k) ==
    /\ At(k, "closeBrowser")
    /\ \E ok \in BOOLEAN : Step(k, AfterClose(sess[k], "browser", ok))

SessionNext(k) ==
    \/ LaunchOk(k) \/ LaunchFail(k)
    \/ NewPageOk(k) \/ NewPageFail(k)
    \/ GotoOk(k) \/ GotoFail(k)
    \/ BodyOk(k) \/ BodyFail(k)
    \/ KeyError(k) \/ ServiceReply(k) \/ DelayElapsed(k)
    \/ ExtractOk(k) \/ ExtractFail(k)
    \/ ClosePage(k) \/ CloseBrowser(k)

Next ==
    \/ PostBadJson
    \/ PostInvalid
    \/ PostStartSessions
    \/ PostRespond
    \/ \E k \in 1..MAX_URLS : SessionNext(k)

Spec == Init /\ [][Next]_vars

-----------------------------------------------------------------------------
(* Claims about the batch and its sessions                                 *)

ValidRequest == request.json /\ ValidBody(request.urls)

\* The sessions whose try block ended in the catch block.
FailedSessions == {k \in DOMAIN sess : sess[k].failedBy # "none"}

RECURSIVE RecordsOfSuccessful(_)
\* The records the successful sessions 1..n extracted, in session order.
RecordsOfSuccessful(n) ==
    IF n = 0 THEN <<>>
    ELSE RecordsOfSuccessful(n - 1) \o
         (IF sess[n].failedBy = "none"
          THEN ExtractPromotions(Dom(sess[n].url), sess[n].combined, Href(sess[n].url))
          ELSE <<>>)

\* C1: a validated batch of N URLs of which K sessions fail, at whatever step
\* and in whatever interleaving, is answered 200 with exactly K error
\* entries and with the records of the N-K successful sessions and no
\* others; no session's promise rejects.
C1_BatchSurvivesSessionFailures ==
    /\ \A k \in DOMAIN sess : sess[k].outcome.kind # "rejected"
    /\ (postPc = "responded" /\ ValidRequest) =>
          /\ response.status = 200
          /\ Len(response.errors) = Cardinality(FailedSessions)
          /\ response.promotions = RecordsOfSuccessful(Len(sess))
          /\ \A j \in 1..Len(response.promotions) :
                \E k \in DOMAIN sess \ FailedSessions :
                    response.promotions[j].url = Href(sess[k].url)

\* C1 witness: a batch of two answered with one error entry and the records
\* of the other session.
C1_Witness ==
    /\ postPc = "responded"
    /\ Len(sess) = 2
    /\ Cardinality(FailedSessions) = 1
    /\ Len(response.errors) = 1
    /\ Len(response.promotions) >= 1
    /\ \E k \in FailedSessions : sess[k].url = "u3"

PreLoopCauses == {"launch", "newPage", "goto", "body"}

\* C2: when a session delivers its outcome, whatever path it took, every
\* handle it acquired has had its release carried out; a failed release is
\* logged, the other handle is released all the same, and the outcome is the
\* one the try or catch block decided.
C2_HandlesReleasedBeforeOutcome ==
    \A k \in DOMAIN sess :
        LET s == sess[k]
        IN  /\ s.pc # "launch" => ((s.failedBy = "launch") = (s.browser = "none"))
            /\ s.failedBy \in {"launch", "newPage"} => s.page = "none"
            /\ s.pc = "done" =>
                  /\ s.page \in {"none", "closed", "closeFailed"}
                  /\ s.browser \in {"none", "closed", "closeFailed"}
                  /\ s.failedBy \notin {"launch", "newPage"} => s.page # "none"
                  /\ s.closeLog =
                        {h \in {"page"} : s.page = "closeFailed"}
                            \cup {h \in {"browser"} : s.browser = "closeFailed"}
                  /\ s.outcome.kind = "returned"
                  /\ s.outcome.success = (s.failedBy = "none")
                  /\ s.outcome.success =>
                        s.outcome.data =
                            ExtractPromotions(Dom(s.url), s.combined, Href(s.url))

\* C2 witness: a successful session whose page release failed and whose
\* browser was then released, and a session that failed at navigation in
\* the same way.
C2_Witness ==
    /\ \E k \in DOMAIN sess :
          /\ sess[k].pc = "done"
          /\ sess[k].outcome.success
          /\ sess[k].page = "closeFailed"
          /\ sess[k].browser = "closed"
    /\ \E k \in DOMAIN sess :
          /\ sess[k].pc = "done"
          /\ sess[k].failedBy = "goto"
          /\ sess[k].page = "closeFailed"
          /\ sess[k].browser = "closed"

\* The number of chunks of s whose inference succeeded.
OkCount(s) == Cardinality({j \in 1..Len(s.answers) : s.answers[j] = "ok"})

AfterLoop(s) ==
    /\ s.pc \in {"extract", "closePage", "closeBrowser", "done"}
    /\ s.failedBy \notin PreLoopCauses

\* C3: a chunk whose inference fails (service error, empty response or
\* non-JSON response) adds no map to the results, the loop still reaches and
\* sends every later chunk, and the session then combines and extracts: it
\* fails only before the loop, by combining a null result, or in extraction.
C3_ChunkFailureAbsorbed ==
    \A k \in DOMAIN sess :
        LET s == sess[k]
        IN  /\ Len(s.results) = OkCount(s)
            /\ Len(s.answers) = s.i
            /\ s.failedBy \in {"none", "combine", "extract"} \cup PreLoopCauses
            /\ s.failedBy = "combine" =>
                  \E j \in 1..Len(s.results) : s.results[j] = JNull
            /\ AfterLoop(s) =>
                  /\ Len(s.answers) = Len(s.chunks)
                  /\ apiKeySet => s.sent = Len(s.chunks)

\* C3 witness: a session with the key set succeeded although its first
\* chunk failed; the second chunk was sent and gave the only map.
C3_Witness ==
    /\ apiKeySet
    /\ \E k \in DOMAIN sess :
          /\ sess[k].pc = "done"
          /\ sess[k].outcome.success
          /\ sess[k].answers = <<"failed", "ok">>
          /\ Len(sess[k].outcome.data) >= 1

\* C4: a session never has more than MAX_REQUESTS_PER_MINUTE calls sent to
\* the inference service, successful or not, since its start or its last
\* RATE_LIMIT_DELAY wait.
C4_AtMostThreeCallsBetweenSuspensions ==
    \A k \in DOMAIN sess : sess[k].sinceSuspend <= MAX_REQUESTS_PER_MINUTE

\* C5: a validated request served without the inference credential, in
\* which every session reached the inference step and so had every call
\* fail, is answered with the 422 selector-generation error.
C5_NoCredentialIs422 ==
    (/\ postPc = "responded"
     /\ ValidRequest
     /\ ~apiKeySet
     /\ \A k \in DOMAIN sess :
            Len(sess[k].chunks) >= 1 /\ Len(sess[k].answers) = Len(sess[k].chunks))
        => response.status = 422

\* C10: a session has at most one inference call in flight, for the chunk at
\* the loop index, and it is sent only when every earlier chunk has its
\* outcome (a map recorded or a failure logged).
C10_ChunksSequential ==
    \A k \in DOMAIN sess :
        LET s == sess[k]
        IN  /\ Cardinality(s.inflight) <= 1
            /\ s.pc = "inflight" => s.inflight = {s.i} /\ Len(s.answers) = s.i
            /\ s.pc # "inflight" => s.inflight = {}
            /\ s.sent <= Len(s.answers) + 1

\* C10 witness: the call of the third chunk is in flight after one failed
\* and one successful chunk.
C10_Witness ==
    \E k \in DOMAIN sess :
        /\ sess[k].pc = "inflight"
        /\ sess[k].i = 2
        /\ sess[k].answers = <<"failed", "ok">>
        /\ sess[k].sent = 3

\* A JSON value that is an object with exactly the five field keys.
HasAllFiveKeys(v) == v.t = "object" /\ DOMAIN v.m = KeySet

\* C11: every map in the pipeline has all five field keys: each value the
\* loop has accepted into the result list, whatever JSON value the service
\* returned, and the combined map.
C11_EveryMapHasFiveKeys ==
    \A k \in DOMAIN sess :
        /\ \A j \in 1..Len(sess[k].results) : HasAllFiveKeys(sess[k].results[j])
        /\ DOMAIN sess[k].combined = KeySet

\* The entry of the response's error list that failed session k contributed.
ErrorEntryOf(k) ==
    response.errors[Cardinality({j \in FailedSessions : j <= k})]

\* C13: every failed session contributes exactly one entry to the error
\* list of the batch, and the entry carries the URL of its session: the
\* entries of two sessions of different URLs differ, also when both failed
\* for the same cause.
C13_ErrorEntriesTellUrlsApart ==
    (postPc = "responded" /\ ValidRequest /\ response.status = 200) =>
        /\ Len(response.errors) = Cardinality(FailedSessions)
        /\ \A k1, k2 \in FailedSessions :
              sess[k1].url # sess[k2].url => ErrorEntryOf(k1) # ErrorEntryOf(k2)

RECURSIVE SentByFirst(_)
\* The inference calls the sessions 1..n have sent.
SentByFirst(n) == IF n = 0 THEN 0 ELSE SentByFirst(n - 1) + sess[n].sent

\* C14: the rate-limit counter is per session: it counts the successful
\* calls of its own session only, and a session suspends only when its own
\* calls reached MAX_REQUESTS_PER_MINUTE, whatever the other sessions sent.
C14_CounterIsPerSession ==
    \A k \in DOMAIN sess :
        LET s == sess[k]
        IN  /\ s.suspensions = 0 => s.requestCount = OkCount(s)
            /\ s.suspensions > 0 => OkCount(s) >= MAX_REQUESTS_PER_MINUTE
            /\ s.requestCount <= Len(s.answers)

\* C14 witness: two concurrent sessions have together sent more than
\* MAX_REQUESTS_PER_MINUTE calls, every one successful, and neither has
\* suspended.
C14_Witness ==
    /\ Len(sess) = 2
    /\ SentByFirst(Len(sess)) > MAX_REQUESTS_PER_MINUTE
    /\ \A k \in DOMAIN sess :
          /\ sess[k].suspensions = 0
          /\ OkCount(sess[k]) = sess[k].sent
          /\ sess[k].pc = "extract"

\* C15: every outcome a session returns is well-formed: with success true
\* the record list is set and no error is, with success false an error
\* string is set and no record list is; never both, never neither.
C15_OutcomeWellFormed ==
    \A k \in DOMAIN sess :
        LET o == sess[k].outcome
        IN  o.kind = "returned" =>
                /\ o.success => o.hasData /\ ~o.hasError
                /\ ~o.success => o.hasError /\ ~o.hasData /\ o.error \in STRING
                /\ o.hasData # o.hasError

\* C15 witness: of two sessions that delivered their outcome one returned
\* records and the other an error.
C15_Witness ==
    /\ \A k \in DOMAIN sess : sess[k].pc = "done"
    /\ \E k \in DOMAIN sess :
          sess[k].outcome.success /\ Len(sess[k].outcome.data) >= 1
    /\ \E k \in DOMAIN sess :
          ~sess[k].outcome.success /\ sess[k].outcome.error = "Target closed"

\* A body that is JSON and whose URL list is too short, too long or has an
\* entry that is not a URL.
BadUrlList ==
    /\ request.json
    /\ \/ Len(request.urls) < MIN_URLS
       \/ Len(request.urls) > MAX_URLS
       \/ \E k \in 1..Len(request.urls) : request.urls[k] = NotAUrl

\* C16: a request whose URL list has fewer than 1 or more than 10 entries,
\* or an entry that is not a URL, starts no session (no browser launch, no
\* inference call for any of its URLs) and is answered 400 with the
\* validation issues.
C16_InvalidRequestStartsNothing ==
    BadUrlList =>
        /\ sess = <<>>
        /\ postPc \in {"start", "responded"}
        /\ postPc = "responded" =>
              /\ response.status = 400
              /\ response.details # {}
              /\ response.promotions = <<>>

\* C16 witness: a list of two entries whose second is not a URL has been
\* answered 400 with the issue of that entry.
C16_Witness ==
    /\ postPc = "responded"
    /\ request.json
    /\ Len(request.urls) = 2
    /\ response.status = 400
    /\ response.details = {[code |-> "invalid_string", path |-> 1]}
    /\ sess = <<>>

\* C17: the response of a validated batch is built only when every session
\* has delivered its outcome, success or failure, and the releases of its
\* page and browser have settled: no session is navigating, inferring,
\* extracting or closing, and the elapsed time is computed at that point.
C17_ResponseAfterAllSessions ==
    (postPc = "responded" /\ ValidRequest) =>
        /\ Len(sess) = Len(request.urls)
        /\ response.timedAfter = DOMAIN sess
        /\ \A k \in DOMAIN sess :
              /\ sess[k].pc = "done"
              /\ sess[k].outcome.kind = "returned"
              /\ sess[k].page # "open"
              /\ sess[k].browser # "open"
              /\ sess[k].inflight = {}

\* C17 witness: a batch of two has been answered; one session failed at
\* launch, long before the other had sent its calls and released its
\* handles.
C17_Witness ==
    /\ postPc = "responded"
    /\ Len(sess) = 2
    /\ response.timedAfter = {1, 2}
    /\ sess[1].failedBy = "launch"
    /\ sess[2].sent = 2
    /\ sess[2].page = "closed"
    /\ sess[2].browser = "closed"

\* The suspensions of s that are over.
SuspensionsOver(s) == s.suspensions - (IF s.pc = "sleeping" THEN 1 ELSE 0)

\* C19: a session waits RATE_LIMIT_DELAY only right before sending a
\* further call and only when exactly MAX_REQUESTS_PER_MINUTE calls have
\* succeeded since its start or its last wait: never after its last chunk,
\* never for a document of at most MAX_REQUESTS_PER_MINUTE chunks, and each
\* wait resets the counter to 0.
C19_SuspendsOnlyBeforeFurtherCall ==
    \A k \in DOMAIN sess :
        LET s == sess[k]
        IN  /\ s.requestCount =
                  OkCount(s) - MAX_REQUESTS_PER_MINUTE * SuspensionsOver(s)
            /\ s.requestCount <= MAX_REQUESTS_PER_MINUTE
            /\ s.pc = "sleeping" =>
                  /\ s.requestCount = MAX_REQUESTS_PER_MINUTE
                  /\ s.i < Len(s.chunks)
                  /\ s.sent = s.i
            /\ (s.suspensions > 0 /\ s.pc # "sleeping") =>
                  s.sent > MAX_REQUESTS_PER_MINUTE * s.suspensions
            /\ Len(s.chunks) <= MAX_REQUESTS_PER_MINUTE => s.suspensions = 0
            /\ s.suspensions * MAX_REQUESTS_PER_MINUTE < Len(s.chunks)
                  \/ s.suspensions = 0

\* C19 witness: a session of four chunks whose first three calls succeeded
\* has waited once, sent the fourth call with its counter at 0 and
\* finished with the counter at 1.
C19_Witness ==
    \E k \in DOMAIN sess :
        /\ sess[k].pc = "done"
        /\ Len(sess[k].chunks) = 4
        /\ sess[k].answers = <<"ok", "ok", "ok", "ok">>
        /\ sess[k].suspensions = 1
        /\ sess[k].requestCount = 1

-----------------------------------------------------------------------------
(* Documents sanitizeHTML is run on: concatenations of at most             *)
(* MaxSanPieces pieces of nav blocks and comments, whole or split.         *)

MaxSanPieces == 5

SanPieces ==
    { <<"<", "n", "a">>, <<"v", ">">>, <<"<", "n", "a", "v", ">">>,
      <<"<", "/", "n", "a", "v", ">">>, CommentOpen, CommentClose, <<"x">> }

SanPieceLists == UNION { [1..n -> SanPieces] : n \in 0..MaxSanPieces }

SanDocs == { Concat(pl) : pl \in SanPieceLists }

SanitizerInit ==
    /\ PostIdle
    /\ ChunkerIdle
    /\ CombinerIdle
    /\ ExtractorIdle
    /\ sanInput \in SanDocs
    /\ sanOnce = <<>>
    /\ sanTwice = <<>>
    /\ sanPc = "call"

\* sanitizeHTML(html) returns.
SanitizeDocument ==
    /\ sanPc = "call"
    /\ sanOnce' = sanitizeHTML(sanInput)
    /\ sanPc' = "once"
    /\ UNCHANGED <<sanInput, sanTwice, ckVars, cbVars, exVars, postVars>>

\* sanitizeHTML called on its own result returns.
SanitizeResult ==
    /\ sanPc = "once"
    /\ sanTwice' = sanitizeHTML(sanOnce)
    /\ sanPc' = "twice"
    /\ UNCHANGED <<sanInput, sanOnce, ckVars, cbVars, exVars, postVars>>

SanitizerNext == SanitizeDocument \/ SanitizeResult

SpecSanitizer == SanitizerInit /\ [][SanitizerNext]_vars

\* C12: sanitizeHTML is idempotent: sanitizing its own result returns that
\* result unchanged, for every document, those with nested, interleaved or
\* split tags included.
C12_SanitizeIdempotent == sanPc = "twice" => sanTwice = sanOnce

=============================================================================
